---- MODULE Spec2Model ----
(***************************************************************************)
(* Model of specdown's `run` command: RunCommand::execute iterating over   *)
(* the spec files (src/src/commands/run.rs) and the runner's single pass   *)
(* over one document's actions (src/src/runner/mod.rs), and of the         *)
(* annotation translators (src/src/parser).                                *)
(***************************************************************************)
EXTENDS Integers, Sequences, FiniteSets, TLC

\* ------------------------------------------------------------------ bounds
MaxFiles == 2       \* number of spec files given on the command line
MaxActions == 3     \* longest action list of one document
MaxEvents == 4      \* longest event list handed to events_to_exitcode alone
MaxArgs == 3        \* most arguments of one annotation function
MaxLang == 1        \* longest language tag of an annotation text
MaxPath == 1        \* most components of a path given on the command line

\* --------------------------------------------------------------- universe
ScriptNames == {"s", "t"}
Contents == {"x", "y"}
Streams == {"StdOut"}
FilePaths == {"f"}
TrackedScripts == {"s"}     \* the names followed from one document to the next

\* Option<ExitCode>: None is the empty tuple, Some(k) is <<k>>
None == << >>
Some(k) == << k >>

\* Action (crate::types::Action as matched in run_action)
ScriptAction == [type : {"Script"}, script_name : ScriptNames,
                 expected_exit_code : {None, Some(1)}]
VerifyAction == [type : {"Verify"}, source : [name : ScriptNames, stream : Streams],
                 expected_value : {"x"}]
CreateFileAction == [type : {"CreateFile"}, file_path : FilePaths]
Action == ScriptAction \cup VerifyAction \cup CreateFileAction

ActionLists == UNION { [1..n -> Action] : n \in 0..MaxActions }

\* what the executor can give back for one script: a launch failure, or the
\* captured streams and exit code
LaunchFailed == [launched |-> FALSE]
Output == [launched : {TRUE}, exit_code : {0, 1}, stdout : Contents, stderr : {"e"}]
ExecOutcome == {LaunchFailed} \cup Output

\* runner::Error kinds; NoError marks "no fatal error so far"
NoError == "NoError"
RunFailed == "RunFailed"
BadShellCommand == "BadShellCommand"
CommandFailed == "CommandFailed"
ScriptOutputMissing == "ScriptOutputMissing"
ErrorKinds == {RunFailed, BadShellCommand, CommandFailed, ScriptOutputMissing}

\* ExitCode and its `as i32` values
Success == "Success"
TestFailed == "TestFailed"
ErrorOccurred == "ErrorOccurred"
ExitCodeSuccess == 0
ExitCodeTestFailed == 1
ExitCodeErrorOccurred == 2
PanicStatus == 101
NotExited == 0 - 1

as_i32(code) ==
    CASE code = Success -> ExitCodeSuccess
      [] code = TestFailed -> ExitCodeTestFailed
      [] code = ErrorOccurred -> ExitCodeErrorOccurred

\* RunEvent
SpecFileStarted(path) == [type |-> "SpecFileStarted", path |-> path]
TestCompleted(result) == [type |-> "TestCompleted", result |-> result]
SpecFileCompleted(success) == [type |-> "SpecFileCompleted", success |-> success]
ErrorOccurredEvent(error) == [type |-> "ErrorOccurred", error |-> error]

\* ------------------------------------------------------------------ state
VARIABLES
    shell_cmd_ok,   \* whether RunCommand.shell_cmd splits into a command line
    pc,             \* position of the process
    file_idx,       \* number of spec files whose iteration has begun
    opened,         \* indexes of the spec files read so far, in order
    actions,        \* action list parsed from the current document
    act_idx,        \* number of actions the iterator has consumed
    state,          \* runner State of the current run_actions call
    collected,      \* events collected so far by run_all_actions
    error,          \* the fatal error that ended run_all_actions, or NoError
    parse_result,   \* "none", or what parser::parse gave for the current file
    executed,       \* positions of the actions run in the current document
    launches,       \* what the executor gave back, per script it was asked to run
    files_written,  \* positions of the CreateFile actions that wrote a file
    events,         \* event list of the current document
    exit_code,      \* ExitCode computed for the current document
    doc_codes,      \* the ExitCode of every run_spec_file call so far
    printed,        \* items handed to the printer for the current document
    printed_files,  \* the spec files whose items were printed, in order
    earlier_scripts,\* tracked names that had a result in the State of an earlier document
    exit_status,    \* process exit status, NotExited while running
    fold_events,    \* an arbitrary event list (events_to_exitcode alone)
    fold_code,      \* result of events_to_exitcode on fold_events
    input,          \* the annotation text handed to the parse functions
    func,           \* the Function handed to the annotation translators
    code_block,     \* None, or Some result of the code-block translator
    blockquote,     \* None, or Some result of the blockquote translator
    fold_done,      \* whether fold_code has been computed
    cwd,            \* the working directory of the process
    spec_files,     \* RunCommand.spec_files
    spec_dir,       \* RunCommand.spec_dir
    running_dir,    \* RunCommand.running_dir, None or Some path
    read_paths,     \* the paths handed to fs::read_to_string, in order
    path_pc         \* position of execute with respect to the directories

run_vars == << shell_cmd_ok, pc, file_idx, opened, parse_result, actions,
               act_idx, state, collected, error, executed, launches,
               files_written, events, exit_code, doc_codes, printed,
               printed_files, earlier_scripts, exit_status >>
fold_vars == << fold_events, fold_code, fold_done >>
parse_vars == << input, func, code_block, blockquote >>
path_vars == << cwd, spec_files, spec_dir, running_dir, read_paths, path_pc >>
vars == << run_vars, fold_vars, parse_vars, path_vars >>

\* ------------------------------------------------------------ State (map)
State_new == [results |-> << >>, is_success |-> TRUE]

has_result(st, name) == name \in DOMAIN st.results

add_script_result(st, name, res) ==
    [n \in (DOMAIN st.results) \cup {name} |->
        IF n = name THEN res ELSE st.results[n]]

add_result(st, result) ==
    [results |-> IF result.kind = "Script"
                 THEN add_script_result(st, result.name,
                        [exit_code |-> result.exit_code,
                         stdout |-> result.stdout,
                         stderr |-> result.stderr])
                 ELSE st.results,
     is_success |-> st.is_success /\ result.passed]

is_success(st) == st.is_success

get_script_output(st, source) ==
    IF source.stream = "StdOut" THEN st.results[source.name].stdout
    ELSE st.results[source.name].stderr

\* ------------------------------------------------------- action execution
Ok(result) == [ok |-> TRUE, result |-> result]
Err(kind) == [ok |-> FALSE, error |-> kind]

expected_code(expected_exit_code) ==
    IF expected_exit_code = None THEN 0 ELSE expected_exit_code[1]

script_run(action, out) ==
    IF ~out.launched THEN Err(CommandFailed)
    ELSE Ok([kind |-> "Script", name |-> action.script_name,
             exit_code |-> out.exit_code, stdout |-> out.stdout,
             stderr |-> out.stderr,
             passed |-> out.exit_code = expected_code(action.expected_exit_code)])

verify_run(action, st) ==
    IF ~has_result(st, action.source.name) THEN Err(ScriptOutputMissing)
    ELSE Ok([kind |-> "Verify", name |-> action.source.name,
             stream |-> action.source.stream,
             passed |-> get_script_output(st, action.source) = action.expected_value])

file_run(action) == [kind |-> "File", path |-> action.file_path, passed |-> TRUE]

run_action(action, st, out) ==
    CASE action.type = "Script" -> script_run(action, out)
      [] action.type = "Verify" -> verify_run(action, st)
      [] action.type = "CreateFile" -> Ok(file_run(action))

\* the outcomes the executor is asked for: only a Script launches anything
OutcomesFor(action) == IF action.type = "Script" THEN ExecOutcome ELSE {LaunchFailed}

\* ---------------------------------------------------- events_to_exitcode
RECURSIVE exitcode_loop(_, _, _)
exitcode_loop(evs, i, code) ==
    IF i > Len(evs) THEN code
    ELSE LET event == evs[i] IN
         CASE event.type = "SpecFileCompleted" /\ ~event.success ->
                exitcode_loop(evs, i + 1, IF code = Success THEN TestFailed ELSE code)
           [] event.type = "ErrorOccurred" ->
                IF event.error = RunFailed THEN TestFailed ELSE ErrorOccurred
           [] OTHER -> exitcode_loop(evs, i + 1, code)

\* variant: an ErrorOccurred sets the code and the loop goes on
RECURSIVE exitcode_loop_no_return(_, _, _)
exitcode_loop_no_return(evs, i, code) ==
    IF i > Len(evs) THEN code
    ELSE LET event == evs[i] IN
         CASE event.type = "SpecFileCompleted" /\ ~event.success ->
                exitcode_loop_no_return(evs, i + 1,
                    IF code = Success THEN TestFailed ELSE code)
           [] event.type = "ErrorOccurred" ->
                exitcode_loop_no_return(evs, i + 1,
                    IF event.error = RunFailed THEN TestFailed ELSE ErrorOccurred)
           [] OTHER -> exitcode_loop_no_return(evs, i + 1, code)

events_to_exitcode_no_return(evs) == exitcode_loop_no_return(evs, 1, Success)

\* variant: every SpecFileCompleted sets the code, the last one decides
RECURSIVE exitcode_loop_last_completed(_, _, _)
exitcode_loop_last_completed(evs, i, code) ==
    IF i > Len(evs) THEN code
    ELSE LET event == evs[i] IN
         CASE event.type = "SpecFileCompleted" ->
                exitcode_loop_last_completed(evs, i + 1,
                    IF event.success THEN Success ELSE TestFailed)
           [] event.type = "ErrorOccurred" ->
                IF event.error = RunFailed THEN TestFailed ELSE ErrorOccurred
           [] OTHER -> exitcode_loop_last_completed(evs, i + 1, code)

events_to_exitcode_last_completed(evs) == exitcode_loop_last_completed(evs, 1, Success)

events_to_exitcode(evs) == exitcode_loop(evs, 1, Success)

\* ------------------------------------------------------------------ Init
NotComputed == "NotComputed"

\* a path is rooted or not and has components; the directory the command
\* is invoked in
RootedPath(parts) == [rooted |-> TRUE, parts |-> parts]
InvocationDir == RootedPath(<< "work" >>)

\* no path is being resolved
NoPaths ==
    /\ cwd = InvocationDir
    /\ spec_files = << >>
    /\ spec_dir = InvocationDir
    /\ running_dir = None
    /\ read_paths = << >>
    /\ path_pc = "idle"

\* no annotation is being translated
NoFunction == [name |-> "", arguments |-> << >>]
NoTranslation ==
    /\ input = << >>
    /\ func = NoFunction
    /\ code_block = None
    /\ blockquote = None

InitRun ==
    /\ pc = "next_file"
    /\ file_idx = 0
    /\ opened = << >>
    /\ parse_result = "none"
    /\ actions = << >>
    /\ act_idx = 0
    /\ state = State_new
    /\ collected = << >>
    /\ error = NoError
    /\ executed = << >>
    /\ launches = << >>
    /\ files_written = << >>
    /\ events = << >>
    /\ exit_code = Success
    /\ doc_codes = << >>
    /\ printed = << >>
    /\ printed_files = << >>
    /\ earlier_scripts = {}
    /\ exit_status = NotExited

Init ==
    /\ shell_cmd_ok \in BOOLEAN
    /\ InitRun
    /\ fold_events = << >>
    /\ fold_code = NotComputed
    /\ fold_done = FALSE
    /\ NoPaths
    /\ NoTranslation

\* ------------------------------------------------- runner (runner/mod.rs)
\* variant: the State of the earlier documents is used again
new_run_state_kept(earlier) ==
    [results |-> [n \in earlier |-> [exit_code |-> 0, stdout |-> "x", stderr |-> "e"]],
     is_success |-> TRUE]

\* run_actions: `let mut state = State::new()`, whatever ran before
new_run_state(earlier) == State_new

\* variant: a failed assertion is handed on as an Err
run_single_action_failure_is_error(st, action, out) ==
    LET r == run_action(action, st, out) IN
    IF r.ok /\ r.result.passed
    THEN [state |-> add_result(st, r.result), ok |-> TRUE,
          event |-> TestCompleted(r.result)]
    ELSE [state |-> st, ok |-> FALSE,
          error |-> IF r.ok THEN CommandFailed ELSE r.error]

\* variant: the result is not added to State
run_single_action_result_not_added(st, action, out) ==
    LET r == run_action(action, st, out) IN
    IF r.ok
    THEN [state |-> st, ok |-> TRUE, event |-> TestCompleted(r.result)]
    ELSE [state |-> st, ok |-> FALSE, error |-> r.error]

\* variant: a Script result is added only when its name has no result yet
run_single_action_first_result_kept(st, action, out) ==
    LET r == run_action(action, st, out) IN
    IF r.ok
    THEN [state |-> IF r.result.kind = "Script" /\ has_result(st, r.result.name)
                    THEN [st EXCEPT !.is_success = st.is_success /\ r.result.passed]
                    ELSE add_result(st, r.result),
          ok |-> TRUE, event |-> TestCompleted(r.result)]
    ELSE [state |-> st, ok |-> FALSE, error |-> r.error]

\* run_single_action: run the action; an Ok result is added to State and
\* becomes a TestCompleted event, an Err is handed on unchanged
run_single_action(st, action, out) ==
    LET r == run_action(action, st, out) IN
    IF r.ok
    THEN [state |-> add_result(st, r.result), ok |-> TRUE,
          event |-> TestCompleted(r.result)]
    ELSE [state |-> st, ok |-> FALSE, error |-> r.error]

\* variant: every item is pulled, whatever the earlier items were
collect_continues_all(err, idx, acts) == idx < Len(acts)

\* variant: the iterator yields the actions back to front
next_action_from_back(acts, idx) == Len(acts) - idx

\* actions.iter() yields the actions front to back: the position of the item
\* pulled after idx items
next_action(acts, idx) == idx + 1

\* collect() into Result<Vec<_>, _> pulls the next item only while no item
\* was an Err
collect_continues(err, idx, acts) == err = NoError /\ idx < Len(acts)

\* variant: the results of CreateFile actions are left out of the events
run_events_without_file_results(coll, err) ==
    IF err = NoError
    THEN SelectSeq(coll, LAMBDA e : e.result.kind /= "File")
    ELSE << ErrorOccurredEvent(err) >>

\* Shell::new: a command line that cannot be split is refused
Shell_new(cmd_ok) == IF cmd_ok THEN Ok("Shell") ELSE Err(BadShellCommand)

\* variant: the Err of Shell::new is dropped and the actions run
executor_or_return_error_dropped(cmd_ok) == Ok("Shell")

\* run_all_actions: `let executor = Shell::new(shell_command)?`
executor_or_return(cmd_ok) == Shell_new(cmd_ok)

\* variant: the ErrorOccurred follows the events collected before it
run_events_error_appended(coll, err) ==
    IF err = NoError THEN coll ELSE coll \o << ErrorOccurredEvent(err) >>

\* variant: the error is wrapped as a RunFailed
run_events_as_run_failed(coll, err) ==
    IF err = NoError THEN coll ELSE << ErrorOccurredEvent(RunFailed) >>

\* run_actions: the or_else replaces an Err by the single ErrorOccurred event
run_events(coll, err) ==
    IF err = NoError THEN coll ELSE << ErrorOccurredEvent(err) >>

\* variant: no SpecFileCompleted after an error
run_actions_events_no_completed_on_error(path, coll, err, st) ==
    IF err = NoError
    THEN << SpecFileStarted(path) >> \o coll \o << SpecFileCompleted(is_success(st)) >>
    ELSE << SpecFileStarted(path), ErrorOccurredEvent(err) >>

run_actions_events(path, coll, err, st) ==
    << SpecFileStarted(path) >> \o run_events(coll, err)
        \o << SpecFileCompleted(is_success(st)) >>

\* --------------------------------------------- RunCommand (commands/run.rs)
\* variant: a failed SpecFileCompleted closes the event list
parse_failed_events_completed(path) ==
    << SpecFileStarted(path), ErrorOccurredEvent(RunFailed), SpecFileCompleted(FALSE) >>

\* run_spec_file when parser::parse fails
parse_failed_events(path) ==
    << SpecFileStarted(path), ErrorOccurredEvent(RunFailed) >>

\* variants: never exit early; exit early on the ErrorOccurred code only
should_exit_never(code) == FALSE
should_exit_only_errors(code) == code = ErrorOccurred

\* execute: `if exit_code != ExitCode::Success`
should_exit(code) == code /= Success

\* PrintItem::RunEvent
RunEventItem(event) == [item |-> "RunEvent", event |-> event]

\* variant: nothing is printed for a document that did not succeed
create_print_items_of_success(evs) ==
    IF events_to_exitcode(evs) = Success
    THEN [i \in 1..Len(evs) |-> RunEventItem(evs[i])]
    ELSE << >>

\* run_spec_file always hands an Ok(events) to create_print_items
create_print_items(evs) == [i \in 1..Len(evs) |-> RunEventItem(evs[i])]

\* --------------------------------------------------------------- actions
\* execute: the loop takes the next spec file; read_file panics
ReadFileFails ==
    /\ pc = "next_file"
    /\ file_idx < MaxFiles
    /\ file_idx' = file_idx + 1
    /\ opened' = Append(opened, file_idx + 1)
    /\ pc' = "panicked"
    /\ exit_status' = PanicStatus
    /\ UNCHANGED << shell_cmd_ok, parse_result, actions, act_idx, state,
                    collected, error, executed, launches, files_written,
                    events, exit_code, doc_codes, printed,
                    printed_files >>
    /\ UNCHANGED earlier_scripts
    /\ UNCHANGED fold_vars
    /\ UNCHANGED path_vars
    /\ UNCHANGED parse_vars

\* run_spec_file: the file is read, parser::parse returns an Err
ParseFails ==
    /\ pc = "next_file"
    /\ file_idx < MaxFiles
    /\ file_idx' = file_idx + 1
    /\ opened' = Append(opened, file_idx + 1)
    /\ parse_result' = "Err"
    /\ events' = parse_failed_events(file_idx + 1)
    /\ exit_code' = events_to_exitcode(events')
    /\ doc_codes' = Append(doc_codes, exit_code')
    /\ pc' = "print"
    /\ UNCHANGED << shell_cmd_ok, actions, act_idx, state, collected, error,
                    executed, launches, files_written, printed,
                    printed_files, exit_status >>
    /\ UNCHANGED earlier_scripts
    /\ UNCHANGED fold_vars
    /\ UNCHANGED path_vars
    /\ UNCHANGED parse_vars

\* run_spec_file: the file is read and parsed; run_actions starts with the
\* SpecFileStarted event and a new State
ParseOk ==
    /\ pc = "next_file"
    /\ file_idx < MaxFiles
    /\ \E list \in ActionLists : actions' = list
    /\ file_idx' = file_idx + 1
    /\ opened' = Append(opened, file_idx + 1)
    /\ parse_result' = "Ok"
    /\ events' = << SpecFileStarted(file_idx + 1) >>
    /\ state' = new_run_state(earlier_scripts)
    /\ pc' = "shell_new"
    /\ UNCHANGED << shell_cmd_ok, act_idx, collected, error, executed,
                    launches, files_written, exit_code, doc_codes, printed,
                    printed_files, exit_status >>
    /\ UNCHANGED earlier_scripts
    /\ UNCHANGED fold_vars
    /\ UNCHANGED path_vars
    /\ UNCHANGED parse_vars

\* run_all_actions: Shell::new(shell_command)?
ShellNew ==
    /\ pc = "shell_new"
    /\ LET executor == executor_or_return(shell_cmd_ok) IN
       IF executor.ok
       THEN pc' = "iterate" /\ error' = error
       ELSE pc' = "returned" /\ error' = executor.error
    /\ UNCHANGED << shell_cmd_ok, file_idx, opened, parse_result, actions,
                    act_idx, state, collected, executed, launches,
                    files_written, events, exit_code, doc_codes, printed,
                    printed_files, exit_status >>
    /\ UNCHANGED earlier_scripts
    /\ UNCHANGED fold_vars
    /\ UNCHANGED path_vars
    /\ UNCHANGED parse_vars

\* run_all_actions: the iterator yields the next action to run_single_action
RunSingleAction ==
    /\ pc = "iterate"
    /\ collect_continues(error, act_idx, actions)
    /\ LET pos == next_action(actions, act_idx)
           action == actions[pos] IN
       \E out \in OutcomesFor(action) :
          LET r == run_single_action(state, action, out) IN
          /\ state' = r.state
          /\ collected' = IF r.ok THEN Append(collected, r.event) ELSE collected
          /\ error' = IF r.ok \/ error /= NoError THEN error ELSE r.error
          /\ launches' = IF action.type = "Script"
                         THEN Append(launches, [pos |-> pos, out |-> out])
                         ELSE launches
          /\ files_written' = IF action.type = "CreateFile"
                              THEN Append(files_written, pos)
                              ELSE files_written
          /\ executed' = Append(executed, pos)
    /\ act_idx' = act_idx + 1
    /\ UNCHANGED << shell_cmd_ok, pc, file_idx, opened, parse_result, actions,
                    events, exit_code, doc_codes, printed, printed_files,
                    exit_status >>
    /\ UNCHANGED earlier_scripts
    /\ UNCHANGED fold_vars
    /\ UNCHANGED path_vars
    /\ UNCHANGED parse_vars

\* run_all_actions: collect() is over, the Result goes back to run_actions
RunAllActionsReturn ==
    /\ pc = "iterate"
    /\ ~collect_continues(error, act_idx, actions)
    /\ pc' = "returned"
    /\ UNCHANGED << shell_cmd_ok, file_idx, opened, parse_result, actions,
                    act_idx, state, collected, error, executed, launches,
                    files_written, events, exit_code, doc_codes, printed,
                    printed_files, exit_status >>
    /\ UNCHANGED earlier_scripts
    /\ UNCHANGED fold_vars
    /\ UNCHANGED path_vars
    /\ UNCHANGED parse_vars

\* run_actions: append the run's events and SpecFileCompleted; run_spec_file
\* then computes the exit code of the document
RunActionsReturn ==
    /\ pc = "returned"
    /\ events' = run_actions_events(file_idx, collected, error, state)
    /\ exit_code' = events_to_exitcode(events')
    /\ doc_codes' = Append(doc_codes, exit_code')
    /\ pc' = "print"
    /\ UNCHANGED << shell_cmd_ok, file_idx, opened, parse_result, actions,
                    act_idx, state, collected, error, executed, launches,
                    files_written, printed, printed_files, exit_status >>
    /\ UNCHANGED earlier_scripts
    /\ UNCHANGED fold_vars
    /\ UNCHANGED path_vars
    /\ UNCHANGED parse_vars

\* execute: the items of the document are handed to the printer
PrintItems ==
    /\ pc = "print"
    /\ printed' = create_print_items(events)
    /\ printed_files' = Append(printed_files, file_idx)
    /\ pc' = "printed"
    /\ UNCHANGED << shell_cmd_ok, file_idx, opened, parse_result, actions,
                    act_idx, state, collected, error, executed, launches,
                    files_written, events, exit_code, doc_codes,
                    exit_status >>
    /\ UNCHANGED earlier_scripts
    /\ UNCHANGED fold_vars
    /\ UNCHANGED path_vars
    /\ UNCHANGED parse_vars

\* execute: std::process::exit on a non-success code
Exit ==
    /\ pc = "printed"
    /\ should_exit(exit_code)
    /\ pc' = "exited"
    /\ exit_status' = as_i32(exit_code)
    /\ UNCHANGED << shell_cmd_ok, file_idx, opened, parse_result, actions,
                    act_idx, state, collected, error, executed, launches,
                    files_written, events, exit_code, doc_codes, printed,
                    printed_files >>
    /\ UNCHANGED earlier_scripts
    /\ UNCHANGED fold_vars
    /\ UNCHANGED path_vars
    /\ UNCHANGED parse_vars

\* execute: the loop body is over and the loop goes on with the next spec
\* file; the locals of the body, run_spec_file and run_actions are gone
NextIteration ==
    /\ pc = "printed"
    /\ ~should_exit(exit_code)
    /\ pc' = "next_file"
    /\ parse_result' = "none"
    /\ actions' = << >>
    /\ act_idx' = 0
    /\ state' = State_new
    /\ collected' = << >>
    /\ error' = NoError
    /\ executed' = << >>
    /\ launches' = << >>
    /\ files_written' = << >>
    /\ events' = << >>
    /\ printed' = << >>
    /\ earlier_scripts' = earlier_scripts \cup (DOMAIN state.results \cap TrackedScripts)
    /\ UNCHANGED << shell_cmd_ok, file_idx, opened, exit_code, doc_codes,
                    printed_files, exit_status >>
    /\ UNCHANGED fold_vars
    /\ UNCHANGED path_vars
    /\ UNCHANGED parse_vars

\* execute: the loop is over, main returns
ExecuteReturns ==
    /\ pc = "next_file"
    /\ file_idx = MaxFiles
    /\ pc' = "done"
    /\ exit_status' = ExitCodeSuccess
    /\ UNCHANGED << shell_cmd_ok, file_idx, opened, parse_result, actions,
                    act_idx, state, collected, error, executed, launches,
                    files_written, events, exit_code, doc_codes, printed,
                    printed_files >>
    /\ UNCHANGED earlier_scripts
    /\ UNCHANGED fold_vars
    /\ UNCHANGED path_vars
    /\ UNCHANGED parse_vars

Next ==
    \/ ReadFileFails
    \/ ParseFails
    \/ ParseOk
    \/ ShellNew
    \/ RunSingleAction
    \/ RunAllActionsReturn
    \/ RunActionsReturn
    \/ PrintItems
    \/ Exit
    \/ NextIteration
    \/ ExecuteReturns

Spec == Init /\ [][Next]_vars

\* ------------------------------------ events_to_exitcode on any event list
AnyResult == [kind : {"Verify"}, name : {"s"}, stream : {"StdOut"}, passed : BOOLEAN]
AnyEvent ==
    { SpecFileStarted(1) }
      \cup { TestCompleted(r) : r \in AnyResult }
      \cup { SpecFileCompleted(b) : b \in BOOLEAN }
      \cup { ErrorOccurredEvent(k) : k \in ErrorKinds }
EventLists == UNION { [1..n -> AnyEvent] : n \in 0..MaxEvents }

InitFold ==
    /\ shell_cmd_ok = TRUE
    /\ InitRun
    /\ fold_events \in EventLists
    /\ fold_code = NotComputed
    /\ fold_done = FALSE
    /\ NoPaths
    /\ NoTranslation

FoldApply ==
    /\ ~fold_done
    /\ fold_code' = events_to_exitcode(fold_events)
    /\ fold_done' = TRUE
    /\ UNCHANGED fold_events
    /\ UNCHANGED run_vars
    /\ UNCHANGED parse_vars
    /\ UNCHANGED path_vars

NextFold == FoldApply

SpecFold == InitFold /\ [][NextFold]_vars

\* ------------------------------------- annotation translators (parser/)
\* function_string::Function and ArgumentValue
FunctionNames == {"script", "verify", "file", "other"}
ArgumentNames == {"name", "expected_exit_code", "script_name", "stream", "path"}
StringValue(s) == [kind |-> "String", str |-> s, num |-> 0]
TokenValue(t) == [kind |-> "Token", str |-> t, num |-> 0]
IntegerValue(k) == [kind |-> "Integer", str |-> "", num |-> k]
ArgumentValue ==
    {StringValue(s) : s \in {"n", "stdout"}}
        \cup {TokenValue(t) : t \in {"stdout", "stderr", "output", "unknown"}}
        \cup {IntegerValue(k) : k \in {2}}
Arguments ==
    UNION {[D -> ArgumentValue] :
              D \in {S \in SUBSET ArgumentNames : Cardinality(S) <= MaxArgs}}
Function == [name : FunctionNames, arguments : Arguments]

has_argument(f, name) == name \in DOMAIN f.arguments

\* CodeBlockType
CodeBlockScript(name, expected_exit_code) ==
    [type |-> "Script", name |-> name, expected_exit_code |-> expected_exit_code]
CodeBlockVerify(name, stream) == [type |-> "Verify", name |-> name, stream |-> stream]
CodeBlockCreateFile(path) == [type |-> "CreateFile", path |-> path]

\* parser::error::Error as built in code_block_info.rs
UnknownFunction(name) == [kind |-> "UnknownFunction", function |-> name]
MissingArgument(function, argument) ==
    [kind |-> "MissingArgument", function |-> function, argument |-> argument]
IncorrectArgumentType(function, argument, expected, got) ==
    [kind |-> "IncorrectArgumentType", function |-> function,
     argument |-> argument, expected |-> expected, got |-> got]
InvalidArgumentValue(function, argument, got, expected) ==
    [kind |-> "InvalidArgumentValue", function |-> function,
     argument |-> argument, got |-> got, expected |-> expected]

\* the name of an ArgumentValue variant in the error texts
got_kind(value) ==
    CASE value.kind = "String" -> "string"
      [] value.kind = "Token" -> "token"
      [] value.kind = "Integer" -> "integer"

incorrect_argument_type_error(f, argument, expected, got) ==
    Err(IncorrectArgumentType(f.name, argument, expected, got))

get_required_argument(f, name) ==
    IF name \in DOMAIN f.arguments
    THEN Ok(f.arguments[name])
    ELSE Err(MissingArgument(f.name, name))

get_integer_argument(f, name) ==
    LET arg == get_required_argument(f, name) IN
    IF ~arg.ok THEN arg
    ELSE IF arg.result.kind = "Integer" THEN Ok(arg.result.num)
    ELSE incorrect_argument_type_error(f, name, "integer", got_kind(arg.result))

get_string_argument(f, name) ==
    LET arg == get_required_argument(f, name) IN
    IF ~arg.ok THEN arg
    ELSE IF arg.result.kind = "String" THEN Ok(arg.result.str)
    ELSE incorrect_argument_type_error(f, name, "string", got_kind(arg.result))

get_token_argument(f, name) ==
    LET arg == get_required_argument(f, name) IN
    IF ~arg.ok THEN arg
    ELSE IF arg.result.kind = "Token" THEN Ok(arg.result.str)
    ELSE incorrect_argument_type_error(f, name, "token", got_kind(arg.result))

\* variant: the code-block grammar knows the combined stream as well
to_stream_with_output(stream_name) ==
    CASE stream_name = "output" -> Some("Output")
      [] stream_name = "stdout" -> Some("StdOut")
      [] stream_name = "stderr" -> Some("StdErr")
      [] OTHER -> None

to_stream(stream_name) ==
    CASE stream_name = "stdout" -> Some("StdOut")
      [] stream_name = "stderr" -> Some("StdErr")
      [] OTHER -> None

\* variant: expected_exit_code is never read
script_to_code_block_type_no_exit_code(f) ==
    LET name == get_string_argument(f, "name") IN
    IF ~name.ok THEN name ELSE Ok(CodeBlockScript(name.result, None))

script_to_code_block_type(f) ==
    LET name == get_string_argument(f, "name") IN
    IF ~name.ok THEN name
    ELSE IF has_argument(f, "expected_exit_code")
    THEN LET code == get_integer_argument(f, "expected_exit_code") IN
         IF ~code.ok THEN code
         ELSE Ok(CodeBlockScript(name.result, Some(code.result)))
    ELSE Ok(CodeBlockScript(name.result, None))

file_to_code_block_type(f) ==
    LET path == get_string_argument(f, "path") IN
    IF ~path.ok THEN path ELSE Ok(CodeBlockCreateFile(path.result))

\* variant: the stream is looked at before the script name
verify_to_code_block_type_stream_first(f) ==
    LET stream_name == get_token_argument(f, "stream") IN
    IF ~stream_name.ok THEN stream_name
    ELSE LET name == get_string_argument(f, "script_name") IN
         IF ~name.ok THEN name
         ELSE LET stream == to_stream(stream_name.result) IN
              IF stream = None
              THEN Err(InvalidArgumentValue(f.name, "stream", stream_name.result,
                                            "output, stdout or stderr"))
              ELSE Ok(CodeBlockVerify(name.result, stream[1]))

verify_to_code_block_type(f) ==
    LET name == get_string_argument(f, "script_name") IN
    IF ~name.ok THEN name
    ELSE LET stream_name == get_token_argument(f, "stream") IN
         IF ~stream_name.ok THEN stream_name
         ELSE LET stream == to_stream(stream_name.result) IN
              IF stream = None
              THEN Err(InvalidArgumentValue(f.name, "stream", stream_name.result,
                                            "output, stdout or stderr"))
              ELSE Ok(CodeBlockVerify(name.result, stream[1]))

to_code_block_type(f) ==
    CASE f.name = "script" -> script_to_code_block_type(f)
      [] f.name = "verify" -> verify_to_code_block_type(f)
      [] f.name = "file" -> file_to_code_block_type(f)
      [] OTHER -> Err(UnknownFunction(f.name))

\* blockquote_info.rs: BlockQuoteTypes and its own Error
BlockQuoteScript(name) == [type |-> "Script", name |-> name]
BlockQuoteVerify(name, stream) == [type |-> "Verify", name |-> name, stream |-> stream]
BlockquoteUnknownFunction(name) == [kind |-> "UnknownFunction", function |-> name]
BlockquoteMissingArgument(function, argument) ==
    [kind |-> "MissingArgument", function |-> function, argument |-> argument]
BlockquoteIncorrectArgumentType(expected, got) ==
    [kind |-> "IncorrectArgumentType", expected |-> expected, got |-> got]
BlockquoteInvalidArgumentValue(got, expected) ==
    [kind |-> "InvalidArgumentValue", got |-> got, expected |-> expected]

\* the matches of blockquote_info.rs have a String and a Token arm only
BlockquoteFunction ==
    {f \in Function :
        \A a \in DOMAIN f.arguments : f.arguments[a].kind \in {"String", "Token"}}

blockquote_to_stream(stream_name) ==
    CASE stream_name = "output" -> Ok("Output")
      [] stream_name = "stdout" -> Ok("StdOut")
      [] stream_name = "stderr" -> Ok("StdErr")
      [] OTHER -> Err(BlockquoteInvalidArgumentValue(stream_name,
                                                     "output, stdout or stderr"))

blockquote_get_string_argument(f, name) ==
    IF name \notin DOMAIN f.arguments
    THEN Err(BlockquoteMissingArgument(f.name, name))
    ELSE IF f.arguments[name].kind = "String" THEN Ok(f.arguments[name].str)
    ELSE Err(BlockquoteIncorrectArgumentType("string", "token"))

blockquote_get_token_argument(f, name) ==
    IF name \notin DOMAIN f.arguments
    THEN Err(BlockquoteMissingArgument(f.name, name))
    ELSE IF f.arguments[name].kind = "Token" THEN Ok(f.arguments[name].str)
    ELSE Err(BlockquoteIncorrectArgumentType("token", "string"))

\* variant: verify looks at the stream before the script name
to_blockquote_type_stream_first(f) ==
    CASE f.name = "script" ->
            LET name == blockquote_get_string_argument(f, "name") IN
            IF ~name.ok THEN name ELSE Ok(BlockQuoteScript(name.result))
      [] f.name = "verify" ->
            LET stream_name == blockquote_get_token_argument(f, "stream") IN
            IF ~stream_name.ok THEN stream_name
            ELSE LET name == blockquote_get_string_argument(f, "script_name") IN
                 IF ~name.ok THEN name
                 ELSE LET stream == blockquote_to_stream(stream_name.result) IN
                      IF ~stream.ok THEN stream
                      ELSE Ok(BlockQuoteVerify(name.result, stream.result))
      [] OTHER -> Err(BlockquoteUnknownFunction(f.name))

to_blockquote_type(f) ==
    CASE f.name = "script" ->
            LET name == blockquote_get_string_argument(f, "name") IN
            IF ~name.ok THEN name ELSE Ok(BlockQuoteScript(name.result))
      [] f.name = "verify" ->
            LET name == blockquote_get_string_argument(f, "script_name") IN
            IF ~name.ok THEN name
            ELSE LET stream_name == blockquote_get_token_argument(f, "stream") IN
                 IF ~stream_name.ok THEN stream_name
                 ELSE LET stream == blockquote_to_stream(stream_name.result) IN
                      IF ~stream.ok THEN stream
                      ELSE Ok(BlockQuoteVerify(name.result, stream.result))
      [] OTHER -> Err(BlockquoteUnknownFunction(f.name))

\* the translators applied to a Function
InitParse ==
    /\ shell_cmd_ok = TRUE
    /\ InitRun
    /\ fold_events = << >>
    /\ fold_code = NotComputed
    /\ fold_done = FALSE
    /\ NoPaths
    /\ input = << >>
    /\ func \in Function
    /\ code_block = None
    /\ blockquote = None

\* code_block_info::parse hands the Function to to_code_block_type
TranslateCodeBlock ==
    /\ code_block = None
    /\ code_block' = Some(to_code_block_type(func))
    /\ UNCHANGED << input, func, blockquote >>
    /\ UNCHANGED run_vars
    /\ UNCHANGED fold_vars
    /\ UNCHANGED path_vars

\* blockquote_info::parse hands the Function to to_blockquote_type
TranslateBlockquote ==
    /\ blockquote = None
    /\ func \in BlockquoteFunction
    /\ blockquote' = Some(to_blockquote_type(func))
    /\ UNCHANGED << input, func, code_block >>
    /\ UNCHANGED run_vars
    /\ UNCHANGED fold_vars
    /\ UNCHANGED path_vars

NextParse == TranslateCodeBlock \/ TranslateBlockquote

SpecParse == InitParse /\ [][NextParse]_vars

\* ------------------------------------------ annotation texts (parser/)
\* an annotation text is a sequence of lexemes; white space is left out
Ident(text) == [class |-> "ident", text |-> text, num |-> 0]
StringLiteral(text) == [class |-> "string", text |-> text, num |-> 0]
IntegerLiteral(k) == [class |-> "integer", text |-> "", num |-> k]
Punct(text) == [class |-> "punct", text |-> text, num |-> 0]
Comma == Punct(",")

\* the lexeme a value is written as, and the value a lexeme is read as
value_text(value) ==
    CASE value.kind = "String" -> StringLiteral(value.str)
      [] value.kind = "Token" -> Ident(value.str)
      [] value.kind = "Integer" -> IntegerLiteral(value.num)
lexeme_value(lexeme) ==
    CASE lexeme.class = "string" -> StringValue(lexeme.text)
      [] lexeme.class = "ident" -> TokenValue(lexeme.text)
      [] lexeme.class = "integer" -> IntegerValue(lexeme.num)

\* the text of a Function, its arguments written in the order of names
ArgumentOrder == << "name", "expected_exit_code", "script_name", "stream", "path" >>
RECURSIVE arguments_text(_, _, _)
arguments_text(f, i, first) ==
    IF i > Len(ArgumentOrder) THEN << >>
    ELSE IF ArgumentOrder[i] \notin DOMAIN f.arguments
    THEN arguments_text(f, i + 1, first)
    ELSE (IF first THEN << >> ELSE << Comma >>)
            \o << Ident(ArgumentOrder[i]), Punct("="),
                  value_text(f.arguments[ArgumentOrder[i]]) >>
            \o arguments_text(f, i + 1, FALSE)
function_text(f) ==
    << Ident(f.name), Punct("(") >> \o arguments_text(f, 1, TRUE) \o << Punct(")") >>

\* the texts after the language tag: of the functions over a few values,
\* whole or cut before the closing parenthesis
TextValues ==
    {StringValue("n"), TokenValue("stdout"), TokenValue("output"), IntegerValue(2)}
TextFunction ==
    {f \in Function : \A a \in DOMAIN f.arguments : f.arguments[a] \in TextValues}
rest_text(f, whole) ==
    IF whole THEN function_text(f)
    ELSE SubSeq(function_text(f), 1, Len(function_text(f)) - 1)
LanguageTags == UNION {[1..n -> {Ident("shell"), Ident("text")}] : n \in 0..MaxLang}

\* an annotation text: a language tag, a comma or none, the text of a function
annotation_text(language, comma, f, whole) ==
    language \o (IF comma THEN << Comma >> ELSE << >>) \o rest_text(f, whole)

\* function_string::parse: identifier "(" (argument ("," argument)*)? ")",
\* an argument being identifier "=" value; a later argument of the same
\* name overwrites the earlier one
ParserFailed == [kind |-> "ParserFailed"]
is_value(lexeme) == lexeme.class \in {"string", "ident", "integer"}
with_argument(arguments, name, value) ==
    [a \in DOMAIN arguments \cup {name} |-> IF a = name THEN value ELSE arguments[a]]
RECURSIVE parse_arguments(_, _, _, _)
parse_arguments(text, i, name, arguments) ==
    IF /\ i + 3 <= Len(text)
       /\ text[i].class = "ident"
       /\ text[i + 1] = Punct("=")
       /\ is_value(text[i + 2])
    THEN LET args == with_argument(arguments, text[i].text, lexeme_value(text[i + 2])) IN
         IF text[i + 3] = Punct(")")
         THEN Ok([name |-> name, arguments |-> args])
         ELSE IF text[i + 3] = Comma
         THEN parse_arguments(text, i + 4, name, args)
         ELSE Err(ParserFailed)
    ELSE Err(ParserFailed)
function_string_parse(text) ==
    IF /\ Len(text) >= 3
       /\ text[1].class = "ident"
       /\ text[2] = Punct("(")
    THEN IF text[3] = Punct(")")
         THEN Ok([name |-> text[1].text, arguments |-> << >>])
         ELSE parse_arguments(text, 3, text[1].text, << >>)
    ELSE Err(ParserFailed)

\* take_until(","): the position of the first comma, 0 when there is none
take_until_comma(text) ==
    IF \E i \in 1..Len(text) : text[i] = Comma
    THEN CHOOSE i \in 1..Len(text) :
            text[i] = Comma /\ \A j \in 1..(i - 1) : text[j] /= Comma
    ELSE 0

\* tuple((take_until(","), tag(","), function_string::parse)): the Function
\* read after the first comma, the language before it being dropped
language_comma_function(text) ==
    LET comma == take_until_comma(text) IN
    IF comma = 0 THEN Err(ParserFailed)
    ELSE function_string_parse(SubSeq(text, comma + 1, Len(text)))

\* variant: a text without a language tag is refused
language_comma_function_needs_language(text) ==
    LET comma == take_until_comma(text) IN
    IF comma <= 1 THEN Err(ParserFailed)
    ELSE function_string_parse(SubSeq(text, comma + 1, Len(text)))

code_block_info_parse_needs_language(text) ==
    LET p == language_comma_function_needs_language(text) IN
    IF p.ok THEN to_code_block_type(p.result) ELSE Err(ParserFailed)

code_block_info_parse(text) ==
    LET p == language_comma_function(text) IN
    IF p.ok THEN to_code_block_type(p.result) ELSE Err(ParserFailed)

blockquote_info_parse(text) ==
    LET p == language_comma_function(text) IN
    IF p.ok THEN to_blockquote_type(p.result) ELSE Err(ParserFailed)

\* the texts blockquote_info.rs's matches cover: no Integer value is read
BlockquoteInput(text) ==
    LET p == language_comma_function(text) IN
    IF p.ok
    THEN \A a \in DOMAIN p.result.arguments :
            p.result.arguments[a].kind \in {"String", "Token"}
    ELSE TRUE

InitText ==
    /\ shell_cmd_ok = TRUE
    /\ InitRun
    /\ fold_events = << >>
    /\ fold_code = NotComputed
    /\ fold_done = FALSE
    /\ NoPaths
    /\ \E language \in LanguageTags, comma \in BOOLEAN,
          f \in TextFunction, whole \in BOOLEAN :
          input = annotation_text(language, comma, f, whole)
    /\ func = NoFunction
    /\ code_block = None
    /\ blockquote = None

ParseCodeBlock ==
    /\ code_block = None
    /\ code_block' = Some(code_block_info_parse(input))
    /\ UNCHANGED << input, func, blockquote >>
    /\ UNCHANGED run_vars
    /\ UNCHANGED fold_vars
    /\ UNCHANGED path_vars

ParseBlockquote ==
    /\ blockquote = None
    /\ BlockquoteInput(input)
    /\ blockquote' = Some(blockquote_info_parse(input))
    /\ UNCHANGED << input, func, code_block >>
    /\ UNCHANGED run_vars
    /\ UNCHANGED fold_vars
    /\ UNCHANGED path_vars

NextText == ParseCodeBlock \/ ParseBlockquote

SpecText == InitText /\ [][NextText]_vars

\* ------------------------------------------- paths (commands/run.rs)
PathComponents == {"d", ".."}
Paths == [rooted : BOOLEAN,
          parts : UNION {[1..n -> PathComponents] : n \in 0..MaxPath}]

has_root(path) == path.rooted

\* Path::join: a rooted path replaces the base, another one is appended
join(base, path) ==
    IF has_root(path) THEN path
    ELSE [rooted |-> base.rooted, parts |-> base.parts \o path.parts]

\* variant: a relative path is taken from the running directory
to_absolute_in_running_dir(self, path) ==
    IF has_root(path) THEN path
    ELSE IF self.running_dir = None THEN join(self.spec_dir, path)
    ELSE join(join(self.spec_dir, self.running_dir[1]), path)

to_absolute(self, path) ==
    IF has_root(path) THEN path ELSE join(self.spec_dir, path)

\* the command line: the spec files and the optional running directory
InitPath ==
    /\ shell_cmd_ok = TRUE
    /\ InitRun
    /\ fold_events = << >>
    /\ fold_code = NotComputed
    /\ fold_done = FALSE
    /\ NoTranslation
    /\ cwd = InvocationDir
    /\ spec_files \in UNION {[1..n -> Paths] : n \in 0..MaxFiles}
    /\ spec_dir = InvocationDir
    /\ running_dir \in {None} \cup {Some(p) : p \in Paths}
    /\ read_paths = << >>
    /\ path_pc = "execute"

\* execute: spec_dir is current_dir() when RunCommand is built
CaptureSpecDir ==
    /\ path_pc = "execute"
    /\ spec_dir' = cwd
    /\ path_pc' = "command"
    /\ UNCHANGED << cwd, spec_files, running_dir, read_paths >>
    /\ UNCHANGED << run_vars, fold_vars, parse_vars >>

\* RunCommand::execute begins with change_to_running_directory
change_to_running_directory ==
    /\ path_pc = "command"
    /\ cwd' = IF running_dir = None THEN cwd ELSE join(cwd, running_dir[1])
    /\ path_pc' = "loop"
    /\ UNCHANGED << spec_files, spec_dir, running_dir, read_paths >>
    /\ UNCHANGED << run_vars, fold_vars, parse_vars >>

\* read_file of the next spec file
ReadSpecFile ==
    /\ path_pc = "loop"
    /\ Len(read_paths) < Len(spec_files)
    /\ read_paths' = Append(read_paths,
          to_absolute([spec_dir |-> spec_dir, running_dir |-> running_dir],
                      spec_files[Len(read_paths) + 1]))
    /\ UNCHANGED << cwd, spec_files, spec_dir, running_dir, path_pc >>
    /\ UNCHANGED << run_vars, fold_vars, parse_vars >>

NextPath == CaptureSpecDir \/ change_to_running_directory \/ ReadSpecFile

SpecPath == InitPath /\ [][NextPath]_vars

TypeOK ==
    /\ pc \in {"next_file", "shell_new", "iterate", "returned", "print",
               "printed", "exited", "panicked", "done"}
    /\ file_idx \in 0..MaxFiles
    /\ act_idx \in 0..MaxActions
    /\ exit_code \in {Success, TestFailed, ErrorOccurred}

\* ----------------------------------------------------------------- claims
Last(seq) == seq[Len(seq)]
EventTypes(evs) == [i \in 1..Len(evs) |-> evs[i].type]

\* run_actions has returned the event list of the current document
RunActionsReturned == parse_result = "Ok" /\ pc \in {"print", "printed", "exited"}

\* C1: once an action of run_actions ended in a fatal error, no action after
\* it in the list is executed: no script is launched, no file is written and
\* no result is added to State from then on.
C1_FatalErrorStopsLaterActions ==
    [][error /= NoError =>
          /\ executed' = executed
          /\ launches' = launches
          /\ files_written' = files_written
          /\ state' = state
          /\ act_idx' = act_idx]_vars

\* a fatal error at an action that is not the last of its list
C1_Witness ==
    /\ pc = "exited"
    /\ error \in {CommandFailed, ScriptOutputMissing}
    /\ act_idx < Len(actions)
    /\ executed = [i \in 1..act_idx |-> i]
    /\ actions[act_idx + 1].type \in {"Script", "CreateFile"}

\* the action about to run ends in a failed assertion: the script launches
\* and exits with another code than expected, or the verified stream is
\* stored and differs from the expected value
AssertionFails(a, st, launch) ==
    \/ /\ a.type = "Script"
       /\ launch.out.launched
       /\ launch.out.exit_code /= expected_code(a.expected_exit_code)
    \/ /\ a.type = "Verify"
       /\ has_result(st, a.source.name)
       /\ get_script_output(st, a.source) /= a.expected_value

\* C2: a failed assertion never aborts the run: the step records a
\* TestCompleted with passed = false, raises no error, and the iteration goes
\* on; a run without a fatal error has executed every action of the list and
\* returns all its TestCompleted events and no ErrorOccurred.
C2_AssertionFailureNeverAborts ==
    [][/\ (/\ act_idx' = act_idx + 1
           /\ AssertionFails(actions[act_idx'], state, Last(launches')))
          => /\ error' = NoError
             /\ Len(collected') = Len(collected) + 1
             /\ Last(collected').type = "TestCompleted"
             /\ ~Last(collected').result.passed
             /\ pc' = "iterate"
       /\ (pc' = "returned" /\ error' = NoError)
          => /\ Len(executed') = Len(actions')
             /\ Len(collected') = Len(actions')
       /\ (parse_result' = "Ok" /\ pc' = "print" /\ error' = NoError)
          => /\ SubSeq(events', 2, Len(events') - 1) = collected'
             /\ \A i \in 1..Len(events') : events'[i].type /= "ErrorOccurred"]_vars

\* two failed assertions in one document, and every action was executed
C2_Witness ==
    /\ pc = "exited"
    /\ error = NoError
    /\ Len(actions) = MaxActions
    /\ Len(executed) = Len(actions)
    /\ Cardinality({i \in 1..Len(collected) : ~collected[i].result.passed}) >= 2
    /\ collected[1].result.passed = FALSE
    /\ Len(events) = Len(actions) + 2

\* C3 (as claimed): after a fatal error at the k-th action the returned
\* events hold, before the ErrorOccurred event, the TestCompleted events of
\* the actions 1..k-1, in order.
C3_EventsBeforeErrorPreserved ==
    (RunActionsReturned /\ error /= NoError)
        => /\ Len(events) >= Len(collected) + 2
           /\ SubSeq(events, 2, Len(collected) + 1) = collected
           /\ events[Len(collected) + 2].type = "ErrorOccurred"

AllPassed(coll) == \A i \in 1..Len(coll) : coll[i].result.passed
NoErrorEvent(evs) == \A i \in 1..Len(evs) : evs[i].type /= "ErrorOccurred"

\* C4 (as claimed): every event list returned by run_actions ends with
\* SpecFileCompleted{success}, success being true iff every TestCompleted
\* produced in the run passed and no ErrorOccurred was emitted.
C4_CompletedSuccessIffAllPassedAndNoError ==
    RunActionsReturned
        => /\ Last(events).type = "SpecFileCompleted"
           /\ Last(events).success <=> (AllPassed(collected) /\ NoErrorEvent(events))

\* the document's only action is a Verify, so no Script produced its source
OnlyVerifyOfMissingScript ==
    /\ RunActionsReturned
    /\ shell_cmd_ok
    /\ Len(actions) = 1
    /\ actions[1].type = "Verify"

\* C5 (as claimed): for a document whose only action is a Verify of a script
\* no Script produced, the events are SpecFileStarted, ErrorOccurred, and
\* there is no SpecFileCompleted.
C5_NoCompletedAfterMissingScript ==
    OnlyVerifyOfMissingScript
        => EventTypes(events) = << "SpecFileStarted", "ErrorOccurred" >>

\* C5 (amended): the events are SpecFileStarted, ErrorOccurred and then a
\* SpecFileCompleted, which is the last event.
C5_CompletedAfterMissingScript ==
    OnlyVerifyOfMissingScript
        => /\ EventTypes(events) =
                << "SpecFileStarted", "ErrorOccurred", "SpecFileCompleted" >>
           /\ events[2].error = ScriptOutputMissing

C5_Witness ==
    /\ OnlyVerifyOfMissingScript
    /\ pc = "exited"
    /\ error = ScriptOutputMissing
    /\ Len(events) = 3

\* C6: a document run that ends in a runtime fatal error has the exit code
\* ErrorOccurred, never TestFailed or Success, whatever tests passed or
\* failed before the error.
C6_FatalErrorExitCode ==
    (RunActionsReturned /\ error /= NoError)
        => /\ exit_code = ErrorOccurred
           /\ Last(doc_codes) = ErrorOccurred
           /\ pc = "exited" => exit_status = ExitCodeErrorOccurred

\* a missing script after one passed and one failed test
C6_Witness ==
    /\ pc = "exited"
    /\ error = ScriptOutputMissing
    /\ Len(collected) = 2
    /\ collected[1].result.passed
    /\ ~collected[2].result.passed
    /\ exit_code = ErrorOccurred

\* C7: when parsing the document fails, the events are exactly
\* SpecFileStarted and ErrorOccurred(RunFailed), no action is executed, and
\* the exit code of the document is TestFailed.
C7_ParseFailure ==
    parse_result = "Err"
        => /\ events = << SpecFileStarted(file_idx), ErrorOccurredEvent(RunFailed) >>
           /\ executed = << >>
           /\ launches = << >>
           /\ files_written = << >>
           /\ collected = << >>
           /\ state = State_new
           /\ exit_code = TestFailed
           /\ Last(doc_codes) = TestFailed
           /\ pc \in {"print", "printed", "exited"}
           /\ pc = "exited" => exit_status = ExitCodeTestFailed

C7_Witness ==
    /\ parse_result = "Err"
    /\ pc = "exited"
    /\ Len(events) = 2
    /\ Len(printed) >= 2

\* the reference of C8
HasError(evs) == \E i \in 1..Len(evs) : evs[i].type = "ErrorOccurred"
FirstError(evs) ==
    CHOOSE i \in 1..Len(evs) :
        /\ evs[i].type = "ErrorOccurred"
        /\ \A j \in 1..(i - 1) : evs[j].type /= "ErrorOccurred"
HasFailedCompleted(evs) ==
    \E i \in 1..Len(evs) : evs[i].type = "SpecFileCompleted" /\ ~evs[i].success
ReferenceExitCode(evs) ==
    IF HasError(evs)
    THEN IF evs[FirstError(evs)].error = RunFailed THEN TestFailed ELSE ErrorOccurred
    ELSE IF HasFailedCompleted(evs) THEN TestFailed ELSE Success

\* C8: events_to_exitcode equals the reference on every event list: with an
\* ErrorOccurred, TestFailed when the first one wraps RunFailed and
\* ErrorOccurred otherwise; without, TestFailed when a
\* SpecFileCompleted{success: false} is present and Success otherwise.
C8_ExitCodeReference ==
    fold_done => fold_code = ReferenceExitCode(fold_events)

\* a RunFailed error first, another error and a failed completion after it
C8_Witness ==
    /\ fold_done
    /\ Len(fold_events) >= 3
    /\ fold_events[1] = ErrorOccurredEvent(RunFailed)
    /\ fold_events[2] = ErrorOccurredEvent(BadShellCommand)
    /\ fold_events[3] = SpecFileCompleted(FALSE)
    /\ fold_code = TestFailed

\* C9: the spec files are processed in argument order, and once a document
\* yields another exit code than Success no later spec file is read.
C9_FilesInOrderUntilFirstFailure ==
    /\ Len(opened) = file_idx
    /\ \A i \in 1..Len(opened) : opened[i] = i
    /\ \A i \in 1..Len(opened) : \A j \in 1..(i - 1) :
          j <= Len(doc_codes) /\ doc_codes[j] = Success
    /\ \A j \in 1..Len(doc_codes) :
          doc_codes[j] /= Success => j = Len(doc_codes) /\ j = Len(opened)
    /\ pc = "exited" => Last(doc_codes) /= Success

\* the first document fails and the second file is never read
C9_Witness ==
    /\ pc = "exited"
    /\ opened = << 1 >>
    /\ doc_codes = << TestFailed >>
    /\ file_idx < MaxFiles

Terminated == pc \in {"done", "exited", "panicked"}
AllDocumentsSucceeded ==
    /\ Len(doc_codes) = MaxFiles
    /\ \A i \in 1..Len(doc_codes) : doc_codes[i] = Success
HasFailedDocument == \E i \in 1..Len(doc_codes) : doc_codes[i] /= Success
FirstFailedDocument ==
    CHOOSE i \in 1..Len(doc_codes) :
        /\ doc_codes[i] /= Success
        /\ \A j \in 1..(i - 1) : doc_codes[j] = Success

\* C10: the exit status is 0 iff every document's run yields Success;
\* otherwise it is the class of the first non-success document: test-failed
\* for a failed assertion or a parse failure, another non-zero class for a
\* bad shell template or a missing referenced script.
C10_ExitStatus ==
    Terminated
        => /\ (exit_status = 0) <=> AllDocumentsSucceeded
           /\ HasFailedDocument
                => /\ pc = "exited"
                   /\ exit_status = as_i32(doc_codes[FirstFailedDocument])
                   /\ exit_status /= 0
           /\ (pc = "exited" /\ parse_result = "Err")
                => exit_status = ExitCodeTestFailed
           /\ (pc = "exited" /\ parse_result = "Ok" /\ error = NoError)
                => (~is_success(state) /\ exit_status = ExitCodeTestFailed)
           /\ (pc = "exited" /\ error \in {BadShellCommand, ScriptOutputMissing})
                => /\ exit_status = ExitCodeErrorOccurred
                   /\ exit_status /= ExitCodeTestFailed

\* the second document fails an assertion after a successful first one
C10_Witness ==
    /\ pc = "exited"
    /\ doc_codes = << Success, TestFailed >>
    /\ error = NoError
    /\ parse_result = "Ok"
    /\ exit_status = ExitCodeTestFailed

\* the Script actions before position i that have the name of the Verify at i
ScriptsBefore(i) ==
    {j \in 1..(i - 1) : /\ actions[j].type = "Script"
                        /\ actions[j].script_name = actions[i].source.name}

\* the action at position i ended the run with the script-not-found error
ScriptNotFoundAt(i) ==
    /\ error = ScriptOutputMissing
    /\ act_idx = i
    /\ Len(executed) = i
    /\ Len(collected) = i - 1

\* C11: a Verify finds its source in State only if a Script of the same name
\* was executed at an earlier position of the same list; otherwise it ends
\* the run with the fatal script-not-found error and nothing after it, a
\* later Script of that name included, is executed.
C11_VerifyNeedsEarlierScript ==
    \A i \in 1..Len(executed) :
        actions[i].type = "Verify"
            => IF ScriptsBefore(i) /= {}
               THEN /\ ~ScriptNotFoundAt(i)
                    /\ \E k \in 1..Len(launches) :
                          launches[k].pos \in ScriptsBefore(i) /\ launches[k].out.launched
               ELSE ScriptNotFoundAt(i)

\* a Verify placed before the Script it names: the Script is never executed
C11_Witness ==
    /\ pc = "exited"
    /\ Len(actions) >= 2
    /\ actions[1].type = "Verify"
    /\ actions[2].type = "Script"
    /\ actions[2].script_name = actions[1].source.name
    /\ error = ScriptOutputMissing
    /\ executed = << 1 >>
    /\ launches = << >>

\* the latest launch before position i of a script with the Verify's name
LatestLaunchBefore(i) ==
    CHOOSE k \in 1..Len(launches) :
        /\ launches[k].pos \in ScriptsBefore(i)
        /\ \A m \in 1..Len(launches) :
              launches[m].pos \in ScriptsBefore(i) => launches[m].pos <= launches[k].pos

\* C12: State is keyed by script name with last-write-wins: a Verify compares
\* against the output the latest earlier Script of its name captured.
C12_LastWriteWins ==
    \A i \in 1..Len(collected) :
        actions[i].type = "Verify"
            => /\ collected[i].result.kind = "Verify"
               /\ collected[i].result.passed
                    <=> (launches[LatestLaunchBefore(i)].out.stdout
                            = actions[i].expected_value)

\* two Scripts of one name with different outputs, then a Verify that agrees
\* with the first output only
C12_Witness ==
    /\ pc = "exited"
    /\ Len(actions) = 3
    /\ actions[1].type = "Script"
    /\ actions[2].type = "Script"
    /\ actions[3].type = "Verify"
    /\ actions[1].script_name = actions[3].source.name
    /\ actions[2].script_name = actions[3].source.name
    /\ Len(launches) = 2
    /\ Len(collected) = 3
    /\ launches[1].out.stdout = actions[3].expected_value
    /\ launches[2].out.stdout /= actions[3].expected_value
    /\ ~collected[3].result.passed

\* C13: each call of run_actions starts from an empty State: a Verify naming
\* a script that only an earlier document executed ends the run with the
\* fatal script-not-found error.
C13_StateIsPerDocument ==
    /\ pc = "shell_new" => state = State_new
    /\ \A i \in 1..Len(executed) :
          (/\ actions[i].type = "Verify"
           /\ actions[i].source.name \in earlier_scripts
           /\ ScriptsBefore(i) = {})
              => ScriptNotFoundAt(i)

\* the second document verifies a script that only the first one executed
C13_Witness ==
    /\ pc = "exited"
    /\ file_idx = 2
    /\ doc_codes = << Success, ErrorOccurred >>
    /\ Len(actions) >= 1
    /\ actions[1].type = "Verify"
    /\ actions[1].source.name \in earlier_scripts
    /\ error = ScriptOutputMissing
    /\ executed = << 1 >>

\* the TestCompleted events of an event list
TestCompletedEvents(evs) == SelectSeq(evs, LAMBDA e : e.type = "TestCompleted")

\* positions of the actions of the list that are of one of the given types
ActionsOfType(types) == {i \in 1..Len(actions) : actions[i].type \in types}

RECURSIVE StateAfter(_)
StateAfter(n) ==
    IF n = 0 THEN State_new ELSE add_result(StateAfter(n - 1), collected[n].result)

\* the result of an action of the list
ResultOf(result, action) ==
    CASE action.type = "Script" -> result.kind = "Script" /\ result.name = action.script_name
      [] action.type = "Verify" -> result.kind = "Verify" /\ result.name = action.source.name
      [] action.type = "CreateFile" -> result.kind = "File" /\ result.path = action.file_path

\* C15: the actions are executed one at a time in list order: the k-th
\* execution is action k, it starts from the State that holds the results of
\* all actions before it, and the TestCompleted events are in action order.
C15_StrictlyInOrder ==
    /\ Len(executed) = act_idx
    /\ \A k \in 1..Len(executed) : executed[k] = k
    /\ Len(collected) \in {act_idx, act_idx - 1}
    /\ error = NoError => Len(collected) = act_idx
    /\ \A k \in 1..Len(collected) : ResultOf(collected[k].result, actions[k])
    /\ pc \in {"iterate", "returned"} => state = StateAfter(Len(collected))
    /\ (RunActionsReturned /\ error = NoError)
          => \A k \in 1..Len(actions) :
                /\ events[k + 1].type = "TestCompleted"
                /\ ResultOf(events[k + 1].result, actions[k])

\* three different actions have run and their events are in the list
C15_Witness ==
    /\ RunActionsReturned
    /\ error = NoError
    /\ executed = << 1, 2, 3 >>
    /\ actions[1].type = "CreateFile"
    /\ actions[2].type = "Script"
    /\ actions[3].type = "Verify"
    /\ events[4].result.kind = "Verify"

\* the code-block translator has translated func
CodeBlockTranslated == code_block /= None
BlockquoteTranslated == blockquote /= None

\* the argument is present with the given kind
HasArgumentOfKind(f, name, kind) ==
    has_argument(f, name) /\ f.arguments[name].kind = kind

\* C16: for a script function with a string name the code-block translator
\* yields Script(n, None) without expected_exit_code, Script(n, Some(k)) with
\* an integer expected_exit_code=k, and IncorrectArgumentType with an
\* expected_exit_code that is a string or a token.
C16_ScriptTranslation ==
    (/\ CodeBlockTranslated
     /\ func.name = "script"
     /\ HasArgumentOfKind(func, "name", "String"))
        => LET r == code_block[1]
               n == func.arguments["name"].str IN
           /\ ~has_argument(func, "expected_exit_code")
                 => r = Ok(CodeBlockScript(n, None))
           /\ HasArgumentOfKind(func, "expected_exit_code", "Integer")
                 => r = Ok(CodeBlockScript(n,
                             Some(func.arguments["expected_exit_code"].num)))
           /\ (has_argument(func, "expected_exit_code")
                 /\ ~HasArgumentOfKind(func, "expected_exit_code", "Integer"))
                 => /\ ~r.ok
                    /\ r.error.kind = "IncorrectArgumentType"
                    /\ r.error.argument = "expected_exit_code"
           /\ r.ok => (r.result.expected_exit_code /= None
                          <=> has_argument(func, "expected_exit_code"))

\* script(name="n", expected_exit_code=2) was translated
C16_Witness ==
    /\ CodeBlockTranslated
    /\ func.name = "script"
    /\ HasArgumentOfKind(func, "name", "String")
    /\ HasArgumentOfKind(func, "expected_exit_code", "Integer")
    /\ code_block[1] = Ok(CodeBlockScript("n", Some(2)))

\* a verify function with a string script_name and a token stream
VerifyWithStreamToken ==
    /\ func.name = "verify"
    /\ HasArgumentOfKind(func, "script_name", "String")
    /\ HasArgumentOfKind(func, "stream", "Token")

\* C17: the code-block translator accepts the stream token exactly when it
\* is stdout or stderr, the blockquote translator exactly when it is output,
\* stdout or stderr; every other token gives InvalidArgumentValue, and no
\* code-block result carries Stream::Output.
C17_StreamTokens ==
    LET token == func.arguments["stream"].str
        n == func.arguments["script_name"].str IN
    /\ (CodeBlockTranslated /\ VerifyWithStreamToken)
          => LET r == code_block[1] IN
             /\ r.ok <=> token \in {"stdout", "stderr"}
             /\ token = "stdout" => r = Ok(CodeBlockVerify(n, "StdOut"))
             /\ token = "stderr" => r = Ok(CodeBlockVerify(n, "StdErr"))
             /\ ~r.ok => r.error.kind = "InvalidArgumentValue"
    /\ (BlockquoteTranslated /\ VerifyWithStreamToken)
          => LET r == blockquote[1] IN
             /\ r.ok <=> token \in {"output", "stdout", "stderr"}
             /\ token = "output" => r = Ok(BlockQuoteVerify(n, "Output"))
             /\ token = "stdout" => r = Ok(BlockQuoteVerify(n, "StdOut"))
             /\ token = "stderr" => r = Ok(BlockQuoteVerify(n, "StdErr"))
             /\ ~r.ok => r.error.kind = "InvalidArgumentValue"
    /\ (CodeBlockTranslated /\ code_block[1].ok /\ code_block[1].result.type = "Verify")
          => code_block[1].result.stream /= "Output"

\* verify(script_name="n", stream=output) went through both translators
C17_Witness ==
    /\ CodeBlockTranslated
    /\ BlockquoteTranslated
    /\ VerifyWithStreamToken
    /\ func.arguments["stream"].str = "output"
    /\ ~code_block[1].ok
    /\ code_block[1].error.kind = "InvalidArgumentValue"
    /\ blockquote[1] = Ok(BlockQuoteVerify("n", "Output"))

\* the required arguments of a function, in the order they are read, with
\* the kind each must have
RequiredArguments(name) ==
    CASE name = "script" -> << [argument |-> "name", kind |-> "String"] >>
      [] name = "verify" -> << [argument |-> "script_name", kind |-> "String"],
                               [argument |-> "stream", kind |-> "Token"] >>
      [] name = "file" -> << [argument |-> "path", kind |-> "String"] >>
      [] OTHER -> << >>

\* the positions of the required arguments that are absent or of a wrong kind
FaultyRequired(f) ==
    {i \in 1..Len(RequiredArguments(f.name)) :
        ~HasArgumentOfKind(f, RequiredArguments(f.name)[i].argument,
                           RequiredArguments(f.name)[i].kind)}

Min(S) == CHOOSE x \in S : \A y \in S : x <= y

\* C18 as stated: UnknownFunction exactly for a name other than script,
\* verify, file; MissingArgument whenever a required argument is absent;
\* IncorrectArgumentType whenever a required argument is present with the
\* wrong kind; no action in any of these cases.
C18_ErrorPerFault ==
    CodeBlockTranslated
        => LET r == code_block[1]
               req == RequiredArguments(func.name) IN
           /\ (~r.ok /\ r.error.kind = "UnknownFunction")
                 <=> func.name \notin {"script", "verify", "file"}
           /\ \A i \in 1..Len(req) :
                 /\ ~has_argument(func, req[i].argument)
                       => /\ ~r.ok
                          /\ r.error.kind = "MissingArgument"
                          /\ r.error.function = func.name
                          /\ ~has_argument(func, r.error.argument)
                 /\ (has_argument(func, req[i].argument)
                       /\ func.arguments[req[i].argument].kind /= req[i].kind)
                       => /\ ~r.ok
                          /\ r.error.kind = "IncorrectArgumentType"

\* C18 (amended): UnknownFunction exactly for a name other than script,
\* verify, file; otherwise the first required argument, in reading order,
\* that is absent or of the wrong kind decides the error: MissingArgument
\* naming it when absent, IncorrectArgumentType naming it when of the wrong
\* kind; no action in any of these cases.
C18_FirstFaultDecides ==
    CodeBlockTranslated
        => LET r == code_block[1]
               req == RequiredArguments(func.name) IN
           /\ (~r.ok /\ r.error.kind = "UnknownFunction")
                 <=> func.name \notin {"script", "verify", "file"}
           /\ func.name \notin {"script", "verify", "file"}
                 => r = Err(UnknownFunction(func.name))
           /\ FaultyRequired(func) /= {}
                 => LET first == req[Min(FaultyRequired(func))] IN
                    /\ ~r.ok
                    /\ ~has_argument(func, first.argument)
                          => r.error = MissingArgument(func.name, first.argument)
                    /\ has_argument(func, first.argument)
                          => /\ r.error.kind = "IncorrectArgumentType"
                             /\ r.error.function = func.name
                             /\ r.error.argument = first.argument
                             /\ r.error.expected = got_kind([kind |-> first.kind])
                             /\ r.error.got = got_kind(func.arguments[first.argument])

\* verify with a token as script_name and no stream was translated
C18_Witness ==
    /\ CodeBlockTranslated
    /\ func.name = "verify"
    /\ HasArgumentOfKind(func, "script_name", "Token")
    /\ ~has_argument(func, "stream")
    /\ ~code_block[1].ok
    /\ code_block[1].error.kind = "IncorrectArgumentType"
    /\ code_block[1].error.argument = "script_name"

\* the run is over and the spec file opened last gave no events: read_file
\* could not read it
SpecFileUnreadable == Terminated /\ Len(doc_codes) < Len(opened)

\* C19: when a spec file cannot be read, the run ends with the exit status
\* of the ErrorOccurred class, which it got from the exit code computed from
\* that document's events.
C19_UnreadableFileIsErrorClass ==
    SpecFileUnreadable
        => /\ pc = "exited"
           /\ exit_code = ErrorOccurred
           /\ exit_status = as_i32(exit_code)

\* the list with the events at positions i and i + 1 exchanged
SwapAdjacent(evs, i) ==
    [k \in 1..Len(evs) |->
        IF k = i THEN evs[i + 1] ELSE IF k = i + 1 THEN evs[i] ELSE evs[k]]

\* C20: on a list without ErrorOccurred the exit code is the same after any
\* exchange of two neighbours, hence for every permutation; on a list with
\* an ErrorOccurred it is the exit code of the first ErrorOccurred alone,
\* whatever precedes or follows it.
C20_OrderIndependentUpToFirstError ==
    fold_done
        => /\ ~HasError(fold_events)
                => \A i \in 1..(Len(fold_events) - 1) :
                      events_to_exitcode(SwapAdjacent(fold_events, i)) = fold_code
           /\ HasError(fold_events)
                => /\ fold_code
                        = events_to_exitcode(<< fold_events[FirstError(fold_events)] >>)
                   /\ fold_code
                        = IF fold_events[FirstError(fold_events)].error = RunFailed
                          THEN TestFailed ELSE ErrorOccurred

\* a failed completion first, then an error, then an error of another kind
C20_Witness ==
    /\ fold_done
    /\ Len(fold_events) >= 3
    /\ fold_events[1] = SpecFileCompleted(FALSE)
    /\ fold_events[2] = ErrorOccurredEvent(BadShellCommand)
    /\ fold_events[3] = ErrorOccurredEvent(RunFailed)
    /\ fold_code = ErrorOccurred

\* the stream tokens that occur in annotations, and those an `expected`
\* text lists
StreamTokens == {"stdout", "stderr", "output", "unknown"}
TokensNamed(expected) ==
    CASE expected = "output, stdout or stderr" -> {"output", "stdout", "stderr"}
      [] expected = "stdout or stderr" -> {"stdout", "stderr"}
      [] OTHER -> {}

\* C21: the InvalidArgumentValue returned for an unrecognized stream token
\* lists as expected exactly the tokens the grammar in use accepts: output,
\* stdout, stderr for a blockquote, stdout and stderr for a code block.
C21_ExpectedListsAcceptedTokens ==
    /\ (/\ CodeBlockTranslated
        /\ ~code_block[1].ok
        /\ code_block[1].error.kind = "InvalidArgumentValue")
          => TokensNamed(code_block[1].error.expected)
                = {t \in StreamTokens : to_stream(t) /= None}
    /\ (/\ BlockquoteTranslated
        /\ ~blockquote[1].ok
        /\ blockquote[1].error.kind = "InvalidArgumentValue")
          => TokensNamed(blockquote[1].error.expected)
                = {t \in StreamTokens : blockquote_to_stream(t).ok}

\* the text has a comma; the text without what is before its first comma
HasComma(text) == take_until_comma(text) /= 0
WithoutLanguage(text) == SubSeq(text, take_until_comma(text), Len(text))

\* a result of one of the two parse functions: a value or an error value
ParseResult(r) ==
    /\ DOMAIN r \in {{"ok", "result"}, {"ok", "error"}}
    /\ r.ok <=> "result" \in DOMAIN r

BothTranslated == CodeBlockTranslated /\ BlockquoteTranslated

\* the two results agree: both values of the same script name or source, or
\* both errors of the same kind
Agree(c, b) ==
    /\ c.ok <=> b.ok
    /\ c.ok => /\ c.result.type = b.result.type
               /\ c.result.name = b.result.name
               /\ c.result.type = "Verify" => c.result.stream = b.result.stream
    /\ ~c.ok => c.error.kind = b.error.kind

C24_SpecFilesFromInvocationDir ==
    \A i \in 1..Len(read_paths) :
        /\ spec_files[i].rooted => read_paths[i] = spec_files[i]
        /\ ~spec_files[i].rooted
              => read_paths[i] = RootedPath(InvocationDir.parts \o spec_files[i].parts)

\* a running directory was entered and a relative spec file with a parent
\* component was read after it
C24_Witness ==
    /\ running_dir = Some([rooted |-> FALSE, parts |-> << "d" >>])
    /\ cwd = RootedPath(<< "work", "d" >>)
    /\ Len(read_paths) = 2
    /\ spec_files[2] = [rooted |-> FALSE, parts |-> << ".." >>]
    /\ read_paths[2] = RootedPath(<< "work", ".." >>)

\* C25: the executor is built before the first action runs; with a shell
\* command that cannot be used no action of the list runs, whatever the
\* list is, State stays empty, and the run's events are SpecFileStarted,
\* the ErrorOccurred and SpecFileCompleted, of exit code ErrorOccurred.
C25_BadShellRunsNothing ==
    /\ Len(executed) > 0 => shell_cmd_ok
    /\ (parse_result = "Ok" /\ ~shell_cmd_ok /\ pc /= "shell_new")
          => /\ error = BadShellCommand
             /\ executed = << >>
             /\ launches = << >>
             /\ files_written = << >>
             /\ collected = << >>
             /\ state = State_new
             /\ RunActionsReturned
                   => /\ events = << SpecFileStarted(file_idx),
                                     ErrorOccurredEvent(BadShellCommand),
                                     SpecFileCompleted(TRUE) >>
                      /\ exit_code = ErrorOccurred

\* a document of a CreateFile only was run with a bad shell command
C25_Witness ==
    /\ RunActionsReturned
    /\ ~shell_cmd_ok
    /\ Len(actions) = 1
    /\ actions[1].type = "CreateFile"
    /\ files_written = << >>
    /\ exit_code = ErrorOccurred

\* C26: run_actions returns SpecFileStarted, one TestCompleted per action in
\* list order, SpecFileCompleted; or SpecFileStarted, one ErrorOccurred,
\* SpecFileCompleted. So SpecFileStarted is first and SpecFileCompleted last
\* and both occur once, and TestCompleted and ErrorOccurred never meet.
C26_TwoShapes ==
    RunActionsReturned
        => LET types == EventTypes(events)
               n == Len(events) IN
           /\ \/ /\ error = NoError
                 /\ n = Len(actions) + 2
                 /\ \A k \in 1..Len(actions) :
                       /\ types[k + 1] = "TestCompleted"
                       /\ ResultOf(events[k + 1].result, actions[k])
              \/ /\ error /= NoError
                 /\ n = 3
                 /\ events[2] = ErrorOccurredEvent(error)
           /\ events[1] = SpecFileStarted(file_idx)
           /\ types[n] = "SpecFileCompleted"
           /\ \A k \in 2..n : types[k] /= "SpecFileStarted"
           /\ \A k \in 1..(n - 1) : types[k] /= "SpecFileCompleted"
           /\ Cardinality({k \in 1..n : types[k] = "ErrorOccurred"}) <= 1
           /\ ~(HasError(events) /\ \E k \in 1..n : types[k] = "TestCompleted")

\* an error in the third action, after two actions that gave a result
C26_Witness ==
    /\ RunActionsReturned
    /\ Len(actions) = 3
    /\ executed = << 1, 2, 3 >>
    /\ error = ScriptOutputMissing
    /\ EventTypes(events) = << "SpecFileStarted", "ErrorOccurred", "SpecFileCompleted" >>

\* C27: the items of every document that was run are handed to the printer,
\* in event order and the documents in argument order, before the process
\* exits with the document's code; nothing is printed for a document after
\* the first one that did not succeed.
C27_PrintedBeforeExit ==
    /\ \A j \in 1..Len(printed_files) : printed_files[j] = j
    /\ \A j \in 1..(Len(printed_files) - 1) : doc_codes[j] = Success
    /\ Len(printed_files) \in {Len(doc_codes), Len(doc_codes) - 1}
    /\ pc \in {"printed", "exited"}
          => /\ Len(printed_files) = file_idx
             /\ Len(printed) = Len(events)
             /\ \A i \in 1..Len(events) : printed[i] = RunEventItem(events[i])
    /\ pc = "exited"
          => /\ exit_code /= Success
             /\ exit_status = as_i32(exit_code)
             /\ Len(printed_files) = Len(doc_codes)
             /\ Len(printed) >= 2
    /\ pc = "done" => Len(printed_files) = MaxFiles

\* the second document failed a test and its events were printed before the exit
C27_Witness ==
    /\ pc = "exited"
    /\ printed_files = << 1, 2 >>
    /\ doc_codes = << Success, TestFailed >>
    /\ Len(printed) = 3
    /\ printed[3] = RunEventItem(SpecFileCompleted(FALSE))

====
